---- MODULE Spec2Model ----
(***************************************************************************)
(* The keygen application of django-docker-heroku-tutorial: one table of   *)
(* Secret rows, three views (index, generate, delete) and one background   *)
(* job (generate_bg) run by a separate rqworker process.                   *)
(*                                                                         *)
(* The database and the Redis queue are external services: every call to   *)
(* one of them either succeeds or raises (the service is unavailable).     *)
(* Nothing in keygen/views.py catches an exception, so a raising call ends *)
(* the handler at that line.                                               *)
(***************************************************************************)
EXTENDS Integers, Sequences, FiniteSets, TLC

----------------------------------------------------------------------------
(* Bounds of the model *)

\* generate requests (synchronous or background) that complete
MaxGenerate == 3
\* the wall clock reads 1..MaxTime
MaxTime == 2

----------------------------------------------------------------------------
(* Program constants *)

\* keygen/models.py:6  key = models.CharField(max_length=50, ...)
max_length == 50
\* keygen/models.py:6  default=get_random_secret_key: a string of 50 characters
\* (settings.py:25 holds one such string as the default SECRET_KEY)
SecretKeyLength == 50

\* a sample of the characters get_random_secret_key draws from
KeyChars == {"a", "!"}

\* the values of the query parameter 'bg' a client may send
BgValues == {"", "0", "1"}

\* request.GET: a function from the parameter names present to their values
QueryDicts == {<<>>} \cup {[k \in {"bg"} |-> v] : v \in BgValues}

Times == 1..MaxTime

HomeUrl == "/"
BgNotice == "Generating new key in background. Refresh page after two seconds to see generated key."
SyncNotice == "Generated new key."
DeleteNotice == "Deleted all keys."

----------------------------------------------------------------------------
VARIABLES
    rows,       \* the keygen_secret table: a set of [id, created, key]
    nextId,     \* the table's AutoField sequence
    queue,      \* the 'default' RQ queue: job ids, oldest first
    nextJob,    \* the next job id
    running,    \* the job the worker is performing (a sequence of at most one id)
    finished,   \* jobs whose function returned, in order
    failed,     \* jobs whose function raised, in order
    response,   \* what the last request returned
    nSync,      \* completed synchronous generate requests
    nBgReq      \* completed background generate requests

vars == <<rows, nextId, queue, nextJob, running, finished, failed, response, nSync, nBgReq>>

----------------------------------------------------------------------------
(* Pure helpers *)

\* django.core.management.utils.get_random_secret_key, the default of Secret.key
\* A string is written [length, fill]: `length` characters, here all `fill`.
get_random_secret_key == {[length |-> SecretKeyLength, fill |-> c] : c \in KeyChars}

\* QueryDict.get(key): the value, or None (modelled as "" with found = FALSE)
QueryDict_get(GET, key) ==
    IF key \in DOMAIN GET THEN [found |-> TRUE, value |-> GET[key]]
                          ELSE [found |-> FALSE, value |-> ""]

\* variant: the flag read as a number, int(request.GET.get('bg', 0))
bg_mode_int(GET) ==
    LET v == QueryDict_get(GET, "bg") IN v.found /\ v.value \notin {"", "0"}

\* "if request.GET.get('bg'):"  None and the empty string are falsy, every
\* other string is truthy
bg_mode(GET) ==
    LET v == QueryDict_get(GET, "bg") IN v.found /\ v.value # ""

\* the column is varchar(max_length): the database refuses a longer value
column_accepts(key) == key.length <= max_length

\* variant: get_or_create(key=...), which inserts nothing when the key exists
Secret_objects_get_or_create(table, id, now, key) ==
    IF \E r \in table : r.key = key THEN table
    ELSE table \cup {[id |-> id, created |-> now, key |-> key]}

\* variant: auto_now on a bulk save, which stamps every row again
Secret_objects_create_touch(table, id, now, key) ==
    {[r EXCEPT !.created = now] : r \in table} \cup {[id |-> id, created |-> now, key |-> key]}

\* Secret.objects.create(): one INSERT; id from the sequence, created from
\* auto_now_add, key from the field's default
Secret_objects_create(table, id, now, key) ==
    table \cup {[id |-> id, created |-> now, key |-> key]}

\* variant: Secret.objects.first().delete(), which removes the newest row only
Secret_objects_first_delete(table) ==
    IF table = {} THEN {}
    ELSE table \ {CHOOSE r \in table : \A q \in table : r.created >= q.created}

\* Secret.objects.all().delete(): DELETE FROM keygen_secret
Secret_objects_all_delete(table) == {}

\* variant: ordering = ['created'], oldest first
RECURSIVE insert_asc(_, _)
insert_asc(r, s) ==
    IF s = <<>> THEN <<r>>
    ELSE IF Head(s).created <= r.created THEN <<Head(s)>> \o insert_asc(r, Tail(s))
    ELSE <<r>> \o s

\* insert row r into the sequence s, already in descending order of created,
\* after every row that is at least as new (a stable insertion)
RECURSIVE insert_desc(_, _)
insert_desc(r, s) ==
    IF s = <<>> THEN <<r>>
    ELSE IF Head(s).created >= r.created THEN <<Head(s)>> \o insert_desc(r, Tail(s))
    ELSE <<r>> \o s

\* ORDER BY created DESC over the rows in the order the table scan yields them
RECURSIVE order_by_created_desc(_)
order_by_created_desc(scan) ==
    IF scan = <<>> THEN <<>>
    ELSE insert_desc(Head(scan), order_by_created_desc(Tail(scan)))

\* Secret.objects.all() under Meta.ordering = ['-created'], evaluated
Secret_objects_all(scan) == order_by_created_desc(scan)

\* the orders in which a scan may yield the rows of the table
RECURSIVE Scans(_)
Scans(table) ==
    IF table = {} THEN {<<>>}
    ELSE UNION {{<<r>> \o s : s \in Scans(table \ {r})} : r \in table}

\* an HTTP response, with the notices the handler queued and the external
\* calls it made
Response(view, status, location, notices, secrets, calls) ==
    [view |-> view, status |-> status, location |-> location,
     notices |-> notices, secrets |-> secrets, calls |-> calls]

\* an unhandled exception: Django's generic server error
ServerError(view, calls) == Response(view, 500, "", <<>>, <<>>, calls)

\* the elements of a sequence
Range(s) == {s[i] : i \in DOMAIN s}

----------------------------------------------------------------------------
Init ==
    /\ rows = {}
    /\ nextId = 1
    /\ queue = <<>>
    /\ nextJob = 1
    /\ running = <<>>
    /\ finished = <<>>
    /\ failed = <<>>
    /\ response = Response("none", 0, "", <<>>, <<>>, <<>>)
    /\ nSync = 0
    /\ nBgReq = 0

----------------------------------------------------------------------------
(* The views *)

\* def index(request)
index(scan, dbOk) ==
    /\ response' = IF dbOk
                   THEN Response("index", 200, "", <<>>, Secret_objects_all(scan), <<"SELECT">>)
                   ELSE ServerError("index", <<"SELECT">>)
    /\ UNCHANGED <<rows, nextId, queue, nextJob, running, finished, failed, nSync, nBgReq>>

\* variant: generate_bg() called in place of generate_bg.delay()
generate_inline(GET, callOk) ==
    /\ nSync + nBgReq < MaxGenerate
    /\ \E now \in Times, key \in get_random_secret_key :
        IF callOk /\ column_accepts(key)
        THEN /\ rows' = Secret_objects_create(rows, nextId, now, key)
             /\ nextId' = nextId + 1
             /\ IF bg_mode(GET)
                THEN /\ nBgReq' = nBgReq + 1
                     /\ response' = Response("generate", 302, HomeUrl, <<BgNotice>>, <<>>, <<"INSERT">>)
                     /\ UNCHANGED nSync
                ELSE /\ nSync' = nSync + 1
                     /\ response' = Response("generate", 302, HomeUrl, <<SyncNotice>>, <<>>, <<"INSERT">>)
                     /\ UNCHANGED nBgReq
        ELSE /\ response' = ServerError("generate", <<"INSERT">>)
             /\ UNCHANGED <<rows, nextId, nSync, nBgReq>>
    /\ UNCHANGED <<queue, nextJob, running, finished, failed>>

\* def generate(request)
generate(GET, callOk) ==
    /\ nSync + nBgReq < MaxGenerate    \* the bound of the model
    /\ IF bg_mode(GET)
       THEN \* generate_bg.delay(); messages.success(...)
            /\ IF callOk
               THEN /\ queue' = Append(queue, nextJob)
                    /\ nextJob' = nextJob + 1
                    /\ nBgReq' = nBgReq + 1
                    /\ response' = Response("generate", 302, HomeUrl, <<BgNotice>>, <<>>, <<"ENQUEUE">>)
               ELSE /\ response' = ServerError("generate", <<"ENQUEUE">>)
                    /\ UNCHANGED <<queue, nextJob, nBgReq>>
            /\ UNCHANGED <<rows, nextId, nSync>>
       ELSE \* Secret.objects.create(); messages.success(...)
            /\ \E now \in Times, key \in get_random_secret_key :
                IF callOk /\ column_accepts(key)
                THEN /\ rows' = Secret_objects_create(rows, nextId, now, key)
                     /\ nextId' = nextId + 1
                     /\ nSync' = nSync + 1
                     /\ response' = Response("generate", 302, HomeUrl, <<SyncNotice>>, <<>>, <<"INSERT">>)
                ELSE /\ response' = ServerError("generate", <<"INSERT">>)
                     /\ UNCHANGED <<rows, nextId, nSync>>
            /\ UNCHANGED <<queue, nextJob, nBgReq>>
    /\ UNCHANGED <<running, finished, failed>>

\* variant: the DELETE wrapped in try/except: pass
delete_swallow(dbOk) ==
    /\ rows' = IF dbOk THEN Secret_objects_all_delete(rows) ELSE rows
    /\ response' = Response("delete", 302, HomeUrl, <<DeleteNotice>>, <<>>, <<"DELETE">>)
    /\ UNCHANGED <<nextId, queue, nextJob, running, finished, failed, nSync, nBgReq>>

\* variant: delete also empties the queue, django_rq.get_queue().empty()
delete_purge(dbOk) ==
    /\ IF dbOk
       THEN /\ rows' = Secret_objects_all_delete(rows)
            /\ queue' = <<>>
            /\ response' = Response("delete", 302, HomeUrl, <<DeleteNotice>>, <<>>, <<"DELETE", "EMPTY">>)
       ELSE /\ response' = ServerError("delete", <<"DELETE">>)
            /\ UNCHANGED <<rows, queue>>
    /\ UNCHANGED <<nextId, nextJob, running, finished, failed, nSync, nBgReq>>

\* def delete(request)
delete(dbOk) ==
    /\ IF dbOk
       THEN /\ rows' = Secret_objects_all_delete(rows)
            /\ response' = Response("delete", 302, HomeUrl, <<DeleteNotice>>, <<>>, <<"DELETE">>)
       ELSE /\ response' = ServerError("delete", <<"DELETE">>)
            /\ UNCHANGED rows
    /\ UNCHANGED <<nextId, queue, nextJob, running, finished, failed, nSync, nBgReq>>

----------------------------------------------------------------------------
(* The rqworker process *)

\* variant: the worker reads the oldest job and leaves it on the queue
worker_peek ==
    /\ running = <<>>
    /\ queue # <<>>
    /\ running' = <<Head(queue)>>
    /\ UNCHANGED <<queue, rows, nextId, nextJob, finished, failed, response, nSync, nBgReq>>

\* the worker takes the oldest job off the queue and enters generate_bg,
\* which first sleeps
worker_dequeue ==
    /\ running = <<>>
    /\ queue # <<>>
    /\ running' = <<Head(queue)>>
    /\ queue' = Tail(queue)
    /\ UNCHANGED <<rows, nextId, nextJob, finished, failed, response, nSync, nBgReq>>

\* variant: @job(retry=...), a failed job goes back on the queue
generate_bg_retry(dbOk) ==
    /\ running # <<>>
    /\ \E now \in Times, key \in get_random_secret_key :
        IF dbOk /\ column_accepts(key)
        THEN /\ rows' = Secret_objects_create(rows, nextId, now, key)
             /\ nextId' = nextId + 1
             /\ finished' = finished \o running
             /\ UNCHANGED <<failed, queue>>
        ELSE /\ queue' = queue \o running
             /\ UNCHANGED <<rows, nextId, finished, failed>>
    /\ running' = <<>>
    /\ UNCHANGED <<nextJob, response, nSync, nBgReq>>

\* generate_bg after its sleep: Secret.objects.create(), with created from
\* the worker's clock and key from the field's default; an exception fails
\* the job, which is not run again
generate_bg(dbOk) ==
    /\ running # <<>>
    /\ \E now \in Times, key \in get_random_secret_key :
        IF dbOk /\ column_accepts(key)
        THEN /\ rows' = Secret_objects_create(rows, nextId, now, key)
             /\ nextId' = nextId + 1
             /\ finished' = finished \o running
             /\ UNCHANGED failed
        ELSE /\ failed' = failed \o running
             /\ UNCHANGED <<rows, nextId, finished>>
    /\ running' = <<>>
    /\ UNCHANGED <<queue, nextJob, response, nSync, nBgReq>>

----------------------------------------------------------------------------
IndexStep == \E scan \in Scans(rows), dbOk \in BOOLEAN : index(scan, dbOk)

GenerateStep == \E GET \in QueryDicts, callOk \in BOOLEAN : generate(GET, callOk)

DeleteStep == \E dbOk \in BOOLEAN : delete(dbOk)

GenerateBgStep == \E dbOk \in BOOLEAN : generate_bg(dbOk)

Next ==
    \/ IndexStep
    \/ GenerateStep
    \/ DeleteStep
    \/ worker_dequeue
    \/ GenerateBgStep

Spec == Init /\ [][Next]_vars

\* The rqworker process is a loop that never exits: whenever a job waits it
\* is taken, and a job that was taken runs to its end.
FairSpec == Spec /\ WF_vars(worker_dequeue) /\ WF_vars(GenerateBgStep)

----------------------------------------------------------------------------
(* The steps the properties speak of *)

\* a generate request that took the "else" branch and returned its redirect
SyncGenerateCompletes ==
    /\ response'.view = "generate"
    /\ response'.status = 302
    /\ \E GET \in QueryDicts, callOk \in BOOLEAN : ~bg_mode(GET) /\ generate(GET, callOk)

\* a generate request that took the "if" branch and returned its redirect
BackgroundGenerateCompletes ==
    /\ response'.view = "generate"
    /\ response'.status = 302
    /\ \E GET \in QueryDicts, callOk \in BOOLEAN : bg_mode(GET) /\ generate(GET, callOk)

\* a delete request that returned its redirect
DeleteCompletes == response'.view = "delete" /\ response'.status = 302 /\ DeleteStep

\* an index request that rendered the page: the response is a rendered list
\* and the step changed nothing but the response (a worker step changes the
\* queue or the job being performed, every other view returns another response)
IndexReturns ==
    /\ response'.view = "index"
    /\ response'.status = 200
    /\ UNCHANGED <<rows, nextId, queue, nextJob, running, finished, failed, nSync, nBgReq>>

\* a request during which the database or queue call raised
GenerateCallFails == \E GET \in QueryDicts : generate(GET, FALSE)

DeleteCallFails == delete(FALSE)

\* exactly one row was inserted by the step, and nothing else changed in the table
OneRowInserted ==
    /\ rows \subseteq rows'
    /\ Cardinality(rows') = Cardinality(rows) + 1

\* the row the step inserted carries a generated key
InsertedKeyGenerated == \A r \in rows' \ rows : r.key \in get_random_secret_key

\* exactly one job was put on the queue by the step
OneJobEnqueued ==
    /\ Len(queue') = Len(queue) + 1
    /\ SubSeq(queue', 1, Len(queue)) = queue
    /\ queue'[Len(queue')] \notin Range(queue) \cup Range(running) \cup Range(finished) \cup Range(failed)

\* a sequence without repeated elements
NoDuplicates(s) == \A i, j \in DOMAIN s : s[i] = s[j] => i = j

----------------------------------------------------------------------------
(* C1 *)
\* C1: a synchronous generate request that completes increases the number of
\* stored Secret rows by exactly one, leaves every stored row present and
\* unchanged, and the new row's key is a non-empty string of at most 50
\* characters.
C1_SyncGenerateAddsOneRow ==
    [][SyncGenerateCompletes =>
        /\ OneRowInserted
        /\ \A r \in rows' \ rows : r.key.length > 0 /\ r.key.length <= 50]_vars

\* a synchronous generate has completed on a table that already held a row
C1_Witness ==
    /\ response.view = "generate"
    /\ response.status = 302
    /\ response.notices = <<SyncNotice>>
    /\ Cardinality(rows) >= 2

(* C2 *)
\* C2: right after a delete request that completes the table is empty,
\* whatever it held before and whatever requests preceded it.
C2_DeleteLeavesNoRows ==
    [][DeleteCompletes => Cardinality(rows') = 0]_vars

\* a delete has completed after rows had been inserted
C2_Witness ==
    /\ response.view = "delete"
    /\ response.status = 302
    /\ rows = {}
    /\ nextId > 2

(* C3 *)
\* C3: the list the index view returns holds every stored row, each once, in
\* descending order of created (adjacent rows: the earlier one is at least as
\* new); an empty table yields an empty list.
C3_IndexListsAllNewestFirst ==
    [][IndexReturns =>
        LET listed == response'.secrets IN
        /\ Len(listed) = Cardinality(rows)
        /\ Range(listed) = rows
        /\ \A i \in 1..(Len(listed) - 1) : listed[i].created >= listed[i + 1].created
        /\ (rows = {} => listed = <<>>)]_vars

\* the index view has listed rows of different ages, the newest first although
\* it was inserted first
C3_Witness ==
    /\ response.view = "index"
    /\ response.status = 200
    /\ Len(response.secrets) >= 2
    /\ \E i, j \in DOMAIN response.secrets :
        /\ i < j
        /\ response.secrets[i].created > response.secrets[j].created
        /\ response.secrets[i].id < response.secrets[j].id

(* C4 *)
\* C4 as stated: a background generate request returns before the row is
\* inserted, and every enqueued job is eventually executed and inserts exactly
\* one Secret row with a generated key.
C4_EveryJobInsertsOneRow ==
    /\ [][BackgroundGenerateCompletes => rows' = rows /\ OneJobEnqueued]_vars
    /\ [][GenerateBgStep => OneRowInserted /\ InsertedKeyGenerated]_vars
    /\ \A j \in 1..MaxGenerate : (j \in Range(queue)) ~> (j \in Range(finished))

\* C4 amended: a background generate request returns before the row is
\* inserted; every enqueued job is eventually executed; an execution whose
\* database call succeeds inserts exactly one Secret row with a generated key,
\* and one whose database call raises inserts nothing and is not run again.
C4_EveryJobRunsOnce ==
    /\ [][BackgroundGenerateCompletes => rows' = rows /\ OneJobEnqueued]_vars
    /\ [][GenerateBgStep =>
            \/ /\ OneRowInserted
               /\ InsertedKeyGenerated
               /\ finished' = finished \o running
               /\ failed' = failed
               /\ queue' = queue
            \/ /\ rows' = rows
               /\ failed' = failed \o running
               /\ finished' = finished
               /\ queue' = queue]_vars
    /\ \A j \in 1..MaxGenerate :
        (j \in Range(queue)) ~> (j \in Range(finished) \cup Range(failed))

\* one job has inserted its row and another has failed, both after the
\* requests that enqueued them had returned
C4_Witness ==
    /\ finished # <<>>
    /\ failed # <<>>
    /\ rows # {}

(* C5 *)
\* C5: a stored row never changes: from one state to the next every row that
\* is still stored has the same id, created and key; rows only appear, and
\* they disappear only all together, in a delete step.
C5_RowsImmutable ==
    [][/\ \A r \in rows, q \in rows' : r.id = q.id => r = q
       /\ (rows \subseteq rows' \/ rows' = {})
       /\ (~(rows \subseteq rows') => DeleteCompletes)]_vars

\* rows inserted by both paths are stored together and have been listed
C5_Witness ==
    /\ Cardinality(rows) >= 2
    /\ nSync >= 1
    /\ finished # <<>>
    /\ response.view = "index"
    /\ response.status = 200

(* C6 *)
\* C6: the step that handles a background generate request leaves the stored
\* rows unchanged and adds exactly one job to the queue; rows are added only
\* by a synchronous generate step or by a worker step.
C6_BackgroundRequestWritesNoRow ==
    [][/\ BackgroundGenerateCompletes =>
            /\ rows' = rows
            /\ nextId' = nextId
            /\ OneJobEnqueued
            /\ response'.calls = <<"ENQUEUE">>
       /\ ~(rows' \subseteq rows) => SyncGenerateCompletes \/ GenerateBgStep]_vars

\* a background request has returned while its job still waits and no row
\* has been written
C6_Witness ==
    /\ response.view = "generate"
    /\ response.notices = <<BgNotice>>
    /\ queue # <<>>
    /\ rows = {}
    /\ nextId = 1

(* C7 *)
\* C7: when the database call of a synchronous generate or of a delete, or the
\* queue call of a background generate, raises, the request ends in a server
\* error: rows and queue are unchanged, no notice is added, no redirect is
\* returned, and the call was made once.
C7_FailuresPropagate ==
    [][GenerateCallFails \/ DeleteCallFails =>
        /\ rows' = rows
        /\ nextId' = nextId
        /\ queue' = queue
        /\ nextJob' = nextJob
        /\ response'.status = 500
        /\ response'.notices = <<>>
        /\ response'.location = ""
        /\ Len(response'.calls) = 1]_vars

\* a request has failed while rows were stored and a job was waiting
C7_Witness ==
    /\ response.status = 500
    /\ response.view \in {"generate", "delete"}
    /\ rows # {}
    /\ queue # <<>>

(* C8 *)
\* C8: generate takes the background branch exactly when the request carries
\* 'bg' with a non-empty value ('0' included). A completed request adds one
\* notice and redirects to the list view; in background mode it enqueues one
\* job and inserts no row, otherwise it inserts one row and enqueues no job.
C8_BgSelectsBackground ==
    [][\A GET \in QueryDicts :
        (/\ response'.status = 302
         /\ \E callOk \in BOOLEAN : generate(GET, callOk))
        => /\ response'.location = HomeUrl
           /\ Len(response'.notices) = 1
           /\ IF "bg" \in DOMAIN GET /\ GET["bg"] # ""
              THEN /\ response'.notices = <<BgNotice>>
                   /\ OneJobEnqueued
                   /\ rows' = rows
              ELSE /\ response'.notices = <<SyncNotice>>
                   /\ OneRowInserted
                   /\ queue' = queue]_vars

\* both kinds of generate request have completed, the background one last
C8_Witness ==
    /\ response.view = "generate"
    /\ response.status = 302
    /\ response.notices = <<BgNotice>>
    /\ nSync >= 1
    /\ nBgReq >= 1

(* C9 *)
\* C9: a delete step leaves the queue and the job being performed as they
\* are, and a job that runs to its end inserts its row whatever the last
\* request was; so rows can be stored although the last request was a
\* completed delete.
C9_DeleteKeepsJobs ==
    [][/\ DeleteStep =>
            /\ queue' = queue
            /\ running' = running
            /\ finished' = finished
            /\ failed' = failed
       /\ (GenerateBgStep /\ finished' # finished) => OneRowInserted]_vars

\* the last request was a completed delete, no job is left, and a row is stored
C9_Witness ==
    /\ response.view = "delete"
    /\ response.status = 302
    /\ rows # {}
    /\ queue = <<>>
    /\ running = <<>>

====
